---- MODULE Spec2Model ----
(***************************************************************************)
(* Model of src/dep-audit.js: a command line tool with five commands       *)
(* (scan, outdated, licenses, config, report) that work on three files of  *)
(* the project directory: the config file .dep-audit.json, the report file *)
(* dependency-audit-report.json and the Markdown file                      *)
(* dependency-audit-report.md.  One command runs at a time (one process,   *)
(* one sequential async function per command), so each command is one      *)
(* action.  The manifest package.json, the registry and the npm audit      *)
(* command are the environment: the manifest is fixed per behaviour, every *)
(* registry request may fail, and every audit run has one of several       *)
(* outcomes.                                                               *)
(*                                                                         *)
(* JavaScript values are modelled as follows.  A JSON object whose key     *)
(* order matters (the manifest's dependency groups) is a sequence of       *)
(* entries with distinct names; package names are not array indices, so    *)
(* Object.entries yields them in insertion order.  A declared version is   *)
(* [str, isString]: str is the value's string form (what a property key    *)
(* lookup uses) and isString tells a string from any other JSON value.     *)
(* A mapping (registry versions, audit vulnerabilities) is a set of pairs. *)
(* null and undefined are the strings Null and Undefined.                  *)
(***************************************************************************)
EXTENDS Naturals, Sequences, FiniteSets

VARIABLES pkgFile, configFile, reportFile, mdFile, last

vars == <<pkgFile, configFile, reportFile, mdFile, last>>

(* ---------------------------------------------------------------- bounds *)

\* how many names `config --ignore` may add in one behaviour
MaxIgnored == 1
\* how many licenses `config --add-license` may add in one behaviour
MaxAdded == 1

(* ------------------------------------------------------------ JS values *)

Null == "null"
Undefined == "undefined"
Unknown == "Unknown"

Str(s) == [str |-> s, isString |-> TRUE]
Num(s) == [str |-> s, isString |-> FALSE]

\* Array.prototype.includes on an array of strings
Includes(arr, x) == \E i \in 1..Len(arr) : arr[i] = x

Names(entries) == [i \in 1..Len(entries) |-> entries[i].name]

(* ---------------------------------------------------------- environment *)

\* The registry: package name -> document.  A package the registry does not
\* know answers 404, which axios turns into a rejected promise.
Registry(name) ==
  CASE name = "lodash"  -> [found |-> TRUE, latest |-> "4.17.21",
                            versions |-> {<<"4.17.0", "MIT">>, <<"4.17.21", "MIT">>}]
    [] name = "leftpad" -> [found |-> TRUE, latest |-> "1.3.0",
                            versions |-> {<<"1.3.0", "WTFPL">>}]
    [] name = "badlib"  -> [found |-> TRUE, latest |-> "2.0.0",
                            versions |-> {<<"2.0.0", "GPL-3.0">>, <<"1.0.0", "">>}]
    [] OTHER            -> [found |-> FALSE, latest |-> Undefined, versions |-> {}]

\* The manifests a behaviour may start with.
Manifests ==
  { [present |-> FALSE, dependencies |-> <<>>, devDependencies |-> <<>>],
    [present |-> TRUE,
     dependencies |-> << [name |-> "lodash", version |-> Str("4.17.0")],
                         [name |-> "leftpad", version |-> Str("1.0.0")] >>,
     devDependencies |-> << [name |-> "badlib", version |-> Str("2.0.0")] >>],
    [present |-> TRUE,
     dependencies |-> << [name |-> "lodash", version |-> Str("4.17.21")] >>,
     devDependencies |-> << [name |-> "lodash", version |-> Str("4.17.0")],
                            [name |-> "ghost", version |-> Str("0.1.0")] >>],
    [present |-> TRUE,
     dependencies |-> << [name |-> "badlib", version |-> Num("2")] >>,
     devDependencies |-> <<>>] }

\* What one run of `npm audit --json` can do: its exit code, whether its
\* output parses as JSON, and the parsed document's vulnerabilities section.
AuditOutcomes ==
  { [exit |-> 0, parseable |-> TRUE, hasSection |-> TRUE,
     vulnerabilities |-> {<<"badlib", "high">>}],
    [exit |-> 0, parseable |-> TRUE, hasSection |-> FALSE, vulnerabilities |-> {}],
    [exit |-> 0, parseable |-> FALSE, hasSection |-> FALSE, vulnerabilities |-> {}],
    [exit |-> 1, parseable |-> TRUE, hasSection |-> TRUE,
     vulnerabilities |-> {<<"badlib", "high">>}] }

NoAudit == [exit |-> 0, parseable |-> FALSE, hasSection |-> FALSE, vulnerabilities |-> {}]

\* The values of the config command's two options; Undefined: not given.
IgnoreOptions == {Undefined, "leftpad"}
LicenseOptions == {Undefined, "GPL-3.0"}

(* ----------------------------------------------------------- Config Store *)

DefaultLicenses == <<"MIT", "Apache-2.0", "BSD-2-Clause", "BSD-3-Clause">>

DefaultConfig ==
  [hasIgnored |-> TRUE, ignored |-> <<>>,
   hasAllowed |-> TRUE, allowedLicenses |-> DefaultLicenses]

\* loadConfig: the parsed file as it is, or the default when readJson throws
\* (the file is absent or is not JSON).
loadConfig(file) ==
  IF file.state = "json"
    THEN [hasIgnored |-> file.hasIgnored, ignored |-> file.ignored,
          hasAllowed |-> file.hasAllowed, allowedLicenses |-> file.allowedLicenses]
    ELSE DefaultConfig

\* saveConfig: the file after writeJson(config)
saveConfig(config) ==
  [state |-> "json", hasIgnored |-> config.hasIgnored, ignored |-> config.ignored,
   hasAllowed |-> config.hasAllowed, allowedLicenses |-> config.allowedLicenses]

(* ------------------------------------------------------ Metadata Fetcher *)

Lookup(map, key) == {p \in map : p[1] = key}

\* response.data.versions[version]?.license || 'Unknown'
LicenseOf(doc, version) ==
  LET hit == Lookup(doc.versions, version.str)
  IN IF hit = {} THEN Unknown
     ELSE LET lic == (CHOOSE p \in hit : TRUE)[2]
          IN IF lic = "" THEN Unknown ELSE lic

\* the body of fetchPackageInfo's try block: it throws when the request fails
FetchBody(name, version, netDown) ==
  IF netDown \/ ~Registry(name).found
    THEN [threw |-> TRUE, latest |-> Undefined, license |-> Undefined]
    ELSE [threw |-> FALSE, latest |-> Registry(name).latest,
          license |-> LicenseOf(Registry(name), version)]

fetchPackageInfoNoCatch(name, version, netDown) == FetchBody(name, version, netDown)

fetchPackageInfo(name, version, netDown) ==
  LET r == FetchBody(name, version, netDown)
  IN IF r.threw
       THEN [threw |-> FALSE, latest |-> Unknown, license |-> Unknown]
       ELSE r

(* --------------------------------------------------- Vulnerability Source *)

\* runNpmAudit: execSync throws on a non-zero exit, JSON.parse on output that
\* is not JSON; either way the catch returns {}.
runNpmAudit(audit) ==
  IF audit.exit # 0 \/ ~audit.parseable THEN {}
  ELSE IF audit.hasSection THEN audit.vulnerabilities ELSE {}

(* -------------------------------------------------- Dependency Classifier *)

RECURSIVE Override(_, _)
\* the entries of `base` with the value of each key that `over` has too
Override(base, over) ==
  IF base = <<>> THEN <<>>
  ELSE LET e == Head(base)
           hit == {i \in 1..Len(over) : over[i].name = e.name}
       IN <<IF hit = {} THEN e ELSE over[CHOOSE i \in hit : TRUE]>>
            \o Override(Tail(base), over)

\* { ...pkg.dependencies, ...pkg.devDependencies }: a key keeps the place of
\* its first insertion and takes the value of its last.
MergeDeclarations(deps, devDeps) ==
  Override(deps, devDeps)
    \o SelectSeq(devDeps, LAMBDA e : ~Includes(Names(deps), e.name))

IsIgnoredSkipFirst(config, name) ==
  \E i \in 2..Len(config.ignored) : config.ignored[i] = name

\* config.ignored.includes(name)
IsIgnored(config, name) == Includes(config.ignored, name)

IsOutdatedNoUnknown(latest, version) == ~(version.isString /\ version.str = latest)

\* latest !== version && latest !== 'Unknown'
IsOutdated(latest, version) ==
  ~(version.isString /\ version.str = latest) /\ latest # Unknown

HasVulnerabilityNever(vulnerabilities, name) == Null

\* vulnerabilities[name] ? vulnerabilities[name].severity : null
HasVulnerability(vulnerabilities, name) ==
  LET hit == Lookup(vulnerabilities, name)
  IN IF hit = {} THEN Null ELSE (CHOOSE p \in hit : TRUE)[2]

IsLicenseAllowedStrict(config, license) == Includes(config.allowedLicenses, license)

\* config.allowedLicenses.includes(license) || license === 'Unknown'
IsLicenseAllowed(config, license) ==
  Includes(config.allowedLicenses, license) \/ license = Unknown

RECURSIVE ScanLoop(_, _, _, _, _)
\* the for loop of scanDependencies over the entries still to process; down
\* is the set of names whose registry request fails in this run
ScanLoop(entries, config, vulnerabilities, down, results) ==
  IF entries = <<>> THEN [status |-> "ok", results |-> results]
  ELSE
    LET e == Head(entries) IN
    IF ~config.hasIgnored THEN [status |-> "TypeError", results |-> results]
    ELSE IF IsIgnored(config, e.name)
      THEN ScanLoop(Tail(entries), config, vulnerabilities, down, results)
    ELSE
      LET info == fetchPackageInfo(e.name, e.version, e.name \in down) IN
      IF info.threw THEN [status |-> "Error", results |-> results]
      ELSE IF ~config.hasAllowed THEN [status |-> "TypeError", results |-> results]
      ELSE ScanLoop(Tail(entries), config, vulnerabilities, down,
             Append(results,
               [name |-> e.name,
                version |-> e.version,
                latest |-> info.latest,
                isOutdated |-> IsOutdated(info.latest, e.version),
                hasVulnerability |-> HasVulnerability(vulnerabilities, e.name),
                license |-> info.license,
                isLicenseAllowed |-> IsLicenseAllowed(config, info.license)]))

\* scanDependencies up to the write of the report
Classify(pkg, file, audit, down) ==
  ScanLoop(MergeDeclarations(pkg.dependencies, pkg.devDependencies),
           loadConfig(file), runNpmAudit(audit), down, <<>>)

(* ------------------------------------------------------------ Presenters *)

\* fs.readJson(REPORT_FILE).catch(() => [])
ReadReport(file) == IF file.present THEN file.verdicts ELSE <<>>

Outdated(results) == SelectSeq(results, LAMBDA d : d.isOutdated)
Vulnerable(results) == SelectSeq(results, LAMBDA d : d.hasVulnerability # Null)
NonCompliant(results) == SelectSeq(results, LAMBDA d : ~d.isLicenseAllowed)

\* the Markdown document without its timestamp: the summary counts and one
\* section per verdict
Markdown(results) ==
  [present |-> TRUE,
   total |-> Len(results),
   outdated |-> Len(Outdated(results)),
   vulnerabilities |-> Len(Vulnerable(results)),
   nonCompliant |-> Len(NonCompliant(results)),
   sections |-> [i \in 1..Len(results) |->
      [title |-> <<results[i].name, results[i].version.str>>,
       latest |-> results[i].latest,
       vulnerability |-> IF results[i].hasVulnerability # Null
                           THEN results[i].hasVulnerability ELSE "None",
       license |-> <<results[i].license,
                     IF results[i].isLicenseAllowed THEN "Allowed" ELSE "Not Allowed">>]]]

(* ----------------------------------------------------------------- state *)

\* what the last command was given and what it printed
Idle ==
  [cmd |-> "none", status |-> "ok", ignore |-> Undefined, addLicense |-> Undefined,
   audit |-> NoAudit, down |-> {}, listed |-> <<>>, allowedPrinted |-> <<>>]

InitialConfigFiles ==
  { [state |-> "absent", hasIgnored |-> FALSE, ignored |-> <<>>,
     hasAllowed |-> FALSE, allowedLicenses |-> <<>>],
    [state |-> "corrupt", hasIgnored |-> FALSE, ignored |-> <<>>,
     hasAllowed |-> FALSE, allowedLicenses |-> <<>>],
    [state |-> "json", hasIgnored |-> FALSE, ignored |-> <<>>,
     hasAllowed |-> FALSE, allowedLicenses |-> <<>>],
    [state |-> "json", hasIgnored |-> TRUE, ignored |-> <<>>,
     hasAllowed |-> FALSE, allowedLicenses |-> <<>>],
    [state |-> "json", hasIgnored |-> FALSE, ignored |-> <<>>,
     hasAllowed |-> TRUE, allowedLicenses |-> <<"MIT">>] }

Init ==
  /\ pkgFile \in Manifests
  /\ configFile \in InitialConfigFiles
  /\ reportFile = [present |-> FALSE, verdicts |-> <<>>]
  /\ mdFile = [present |-> FALSE, total |-> 0, outdated |-> 0, vulnerabilities |-> 0,
               nonCompliant |-> 0, sections |-> <<>>]
  /\ last = Idle

(* -------------------------------------------------------------- commands *)

scanDependencies ==
  \E audit \in AuditOutcomes :
  \E down \in SUBSET {e.name : e \in
        {pkgFile.dependencies[i] : i \in 1..Len(pkgFile.dependencies)}
          \cup {pkgFile.devDependencies[i] : i \in 1..Len(pkgFile.devDependencies)}} :
    LET r == Classify(pkgFile, configFile, audit, down) IN
    /\ reportFile' = IF r.status = "ok"
                       THEN [present |-> TRUE, verdicts |-> r.results]
                       ELSE reportFile
    /\ last' = [Idle EXCEPT !.cmd = "scan", !.status = r.status,
                            !.audit = audit, !.down = down]
    /\ UNCHANGED <<pkgFile, configFile, mdFile>>

checkOutdated ==
  LET results == ReadReport(reportFile) IN
  /\ last' = [Idle EXCEPT !.cmd = "outdated", !.listed = Names(Outdated(results))]
  /\ UNCHANGED <<pkgFile, configFile, reportFile, mdFile>>

checkLicensesRecomputed ==
  LET config == loadConfig(configFile)
      results == ReadReport(reportFile)
      nonCompliant == SelectSeq(results,
                        LAMBDA d : ~IsLicenseAllowed(config, d.license)) IN
  /\ last' = IF nonCompliant = <<>> THEN [Idle EXCEPT !.cmd = "licenses"]
             ELSE [Idle EXCEPT !.cmd = "licenses", !.listed = Names(nonCompliant),
                               !.allowedPrinted = config.allowedLicenses]
  /\ UNCHANGED <<pkgFile, configFile, reportFile, mdFile>>

checkLicenses ==
  LET config == loadConfig(configFile)
      results == ReadReport(reportFile)
      nonCompliant == NonCompliant(results) IN
  /\ last' = IF nonCompliant = <<>> THEN [Idle EXCEPT !.cmd = "licenses"]
             ELSE IF ~config.hasAllowed
               THEN [Idle EXCEPT !.cmd = "licenses", !.status = "TypeError"]
             ELSE [Idle EXCEPT !.cmd = "licenses", !.listed = Names(nonCompliant),
                               !.allowedPrinted = config.allowedLicenses]
  /\ UNCHANGED <<pkgFile, configFile, reportFile, mdFile>>

updateConfig ==
  \E ignore \in IgnoreOptions, addLicense \in LicenseOptions :
    LET config == loadConfig(configFile)
        threw == \/ ignore # Undefined /\ ~config.hasIgnored
                 \/ addLicense # Undefined /\ ~config.hasAllowed
        c1 == IF ignore # Undefined /\ config.hasIgnored
                THEN [config EXCEPT !.ignored = Append(@, ignore)] ELSE config
        c2 == IF addLicense # Undefined /\ config.hasAllowed
                THEN [c1 EXCEPT !.allowedLicenses = Append(@, addLicense)] ELSE c1 IN
    /\ ignore # Undefined =>
         Cardinality({i \in 1..Len(config.ignored) :
                        config.ignored[i] \in IgnoreOptions}) < MaxIgnored
    /\ addLicense # Undefined =>
         Cardinality({i \in 1..Len(config.allowedLicenses) :
                        config.allowedLicenses[i] \in LicenseOptions}) < MaxAdded
    /\ configFile' = IF threw THEN configFile ELSE saveConfig(c2)
    /\ last' = [Idle EXCEPT !.cmd = "config",
                            !.status = IF threw THEN "TypeError" ELSE "ok",
                            !.ignore = ignore, !.addLicense = addLicense]
    /\ UNCHANGED <<pkgFile, reportFile, mdFile>>

generateReportOverwriting ==
  /\ mdFile' = Markdown(ReadReport(reportFile))
  /\ reportFile' = [present |-> TRUE, verdicts |-> ReadReport(reportFile)]
  /\ last' = [Idle EXCEPT !.cmd = "report"]
  /\ UNCHANGED <<pkgFile, configFile>>

generateReport ==
  /\ mdFile' = Markdown(ReadReport(reportFile))
  /\ last' = [Idle EXCEPT !.cmd = "report"]
  /\ UNCHANGED <<pkgFile, configFile, reportFile>>

Next ==
  \/ scanDependencies
  \/ checkOutdated
  \/ checkLicenses
  \/ updateConfig
  \/ generateReport

Spec == Init /\ [][Next]_vars

(* ---------------------------------------------------------------- claims *)

Config == loadConfig(configFile)
Declared == MergeDeclarations(pkgFile.dependencies, pkgFile.devDependencies)
Verdicts == reportFile.verdicts
ScanDone == last.cmd = "scan" /\ last.status = "ok"
Verdict(name) == CHOOSE v \in {Verdicts[i] : i \in 1..Len(Verdicts)} : v.name = name
Reported(name) == Includes(Names(Verdicts), name)

VersionListed(v) == Lookup(Registry(v.name).versions, v.version.str) # {}

\* C2 as stated, for declarations whose version is a string: the fetch never
\* raises, and latest and license are both "Unknown" when the request fails,
\* when the registry has no entry for the package, or when the declared version
\* is not in the registry's version list.
C2_Original ==
  last.cmd = "scan" =>
    /\ last.status # "Error"
    /\ last.status = "ok" =>
         \A i \in 1..Len(Verdicts) :
           LET v == Verdicts[i] IN
           ( /\ v.version.isString
             /\ \/ v.name \in last.down
                \/ ~Registry(v.name).found
                \/ ~VersionListed(v) ) =>
             (v.latest = Unknown /\ v.license = Unknown)

\* C2 amended: the fetch never raises; latest and license are both "Unknown"
\* when the request fails or the registry has no entry for the package; when
\* the request succeeds and only the declared version is missing from the
\* version list, license is "Unknown" and latest is the registry's latest tag.
C2_FetchFallback ==
  last.cmd = "scan" =>
    /\ last.status # "Error"
    /\ last.status = "ok" =>
         \A i \in 1..Len(Verdicts) :
           LET v == Verdicts[i] IN
           /\ (v.name \in last.down \/ ~Registry(v.name).found) =>
                (v.latest = Unknown /\ v.license = Unknown)
           /\ (v.name \notin last.down /\ Registry(v.name).found /\ ~VersionListed(v)) =>
                (v.latest = Registry(v.name).latest /\ v.license = Unknown)

C2_Witness ==
  /\ ScanDone
  /\ last.down = {"lodash"}
  /\ Reported("lodash") /\ Verdict("lodash").latest = Unknown
  /\ Verdict("lodash").license = Unknown
  /\ Reported("leftpad") /\ Verdict("leftpad").version = Str("1.0.0")
  /\ Verdict("leftpad").latest = "1.3.0" /\ Verdict("leftpad").license = Unknown

\* C3: in every verdict of the report, isOutdated is false when latest is the
\* declared version string or is "Unknown", and true otherwise.
C3_IsOutdated ==
  \A i \in 1..Len(Verdicts) :
    LET v == Verdicts[i] IN
    v.isOutdated =
      ~((v.version.isString /\ v.latest = v.version.str) \/ v.latest = Unknown)

C3_Witness ==
  /\ ScanDone
  /\ Reported("lodash") /\ Verdict("lodash").latest = "4.17.21"
  /\ Verdict("lodash").isOutdated
  /\ Reported("leftpad") /\ Verdict("leftpad").latest = Unknown
  /\ ~Verdict("leftpad").isOutdated
  /\ Reported("badlib") /\ Verdict("badlib").latest = "2.0.0"
  /\ Verdict("badlib").version = Str("2.0.0") /\ ~Verdict("badlib").isOutdated

\* C4: in every verdict a scan has just written, isLicenseAllowed is true when
\* the license is "Unknown" or is in the allowedLicenses of the config the scan
\* loaded, and false otherwise.
C4_IsLicenseAllowed ==
  ScanDone =>
    \A i \in 1..Len(Verdicts) :
      LET v == Verdicts[i] IN
      v.isLicenseAllowed =
        (v.license = Unknown \/ Includes(Config.allowedLicenses, v.license))

C4_Witness ==
  /\ ScanDone
  /\ Reported("lodash") /\ Verdict("lodash").license = "MIT"
  /\ Verdict("lodash").isLicenseAllowed
  /\ Reported("leftpad") /\ Verdict("leftpad").license = Unknown
  /\ Verdict("leftpad").isLicenseAllowed
  /\ Reported("badlib") /\ Verdict("badlib").license = "GPL-3.0"
  /\ ~Verdict("badlib").isLicenseAllowed

ExpectedNames ==
  SelectSeq(Names(Declared), LAMBDA n : ~Includes(Config.ignored, n))

\* C5 as stated: after every scan, whichever requests failed and whatever the
\* audit did, the names of the report's verdicts are the declared names
\* (dependencies then devDependencies, merged) without the ignored ones, in
\* declaration order.
C5_Original ==
  last.cmd = "scan" =>
    (reportFile.present /\ Names(Verdicts) = ExpectedNames)

\* C5 where the config file is absent, is not JSON or has both of its lists:
\* the scan completes and the order property holds.
C5_WhenConfigHasBothLists ==
  (last.cmd = "scan" /\ Config.hasIgnored /\ Config.hasAllowed) =>
    (last.status = "ok" /\ reportFile.present /\ Names(Verdicts) = ExpectedNames)

Malformed == \E i \in 1..Len(Declared) : ~Declared[i].version.isString

\* C6 as stated, for scans under a config that has both of its lists: a scan of
\* a manifest with a declaration whose version is not a string fails with
\* InvalidInputError and writes no verdicts, and a scan of a well-formed
\* manifest does not fail.
C6_Original ==
  (last.cmd = "scan" /\ Config.hasIgnored /\ Config.hasAllowed) =>
    IF Malformed
      THEN last.status = "InvalidInputError" /\ ~reportFile.present
      ELSE last.status = "ok"

LacksList(file) == file.state = "json" /\ (~file.hasIgnored \/ ~file.hasAllowed)

\* C7 as stated: a config file that is absent, is not JSON or lacks one of its
\* lists loads as the default config, so that a scan started with such a file
\* completes with the verdicts the default config gives, and a config update
\* started with such a file completes.
C7_Original ==
  /\ (last.cmd = "scan" /\ (configFile.state # "json" \/ LacksList(configFile))) =>
       /\ last.status = "ok"
       /\ reportFile.present
       /\ Verdicts = ScanLoop(Declared, DefaultConfig, runNpmAudit(last.audit),
                              last.down, <<>>).results
  /\ last.cmd = "config" => last.status = "ok"

ReadOnly == {"outdated", "licenses", "report"}

\* C8: outdated, licenses and report leave the report file and the config file
\* as they were; and with no report file each of them completes on an empty
\* verdict set: nothing listed as outdated, nothing listed as non-compliant, a
\* Markdown document whose counts are all 0.
C8_ReadOnlyCommands ==
  [][ last'.cmd \in ReadOnly =>
        /\ reportFile' = reportFile
        /\ configFile' = configFile
        /\ ~reportFile.present =>
             /\ last'.status = "ok"
             /\ last'.listed = <<>>
             /\ last'.cmd = "report" =>
                  /\ mdFile'.present
                  /\ mdFile'.total = 0 /\ mdFile'.outdated = 0
                  /\ mdFile'.vulnerabilities = 0 /\ mdFile'.nonCompliant = 0
                  /\ mdFile'.sections = <<>>
    ]_vars

C8_Witness ==
  /\ last.cmd = "report" /\ last.status = "ok"
  /\ ~reportFile.present
  /\ configFile.state = "json" /\ configFile.ignored = <<"leftpad">>
  /\ mdFile.present /\ mdFile.total = 0

C10_LicensesFromLastScan ==
  [][ /\ last'.cmd # "scan" => reportFile' = reportFile
      /\ last'.cmd = "licenses" =>
           /\ last'.status = "ok"
           /\ last'.listed = Names(NonCompliant(ReadReport(reportFile)))
           /\ last'.listed # <<>> =>
                last'.allowedPrinted = loadConfig(configFile).allowedLicenses
    ]_vars

C10_Witness ==
  /\ last.cmd = "licenses" /\ last.status = "ok"
  /\ Includes(last.listed, "badlib")
  /\ Verdict("badlib").license = "GPL-3.0"
  /\ Includes(last.allowedPrinted, "GPL-3.0")

====
